---- MODULE Spec2Model ----
(***************************************************************************)
(* Lakehouse_Customer_Churn/02_Train_AutoML_Churn.py: a notebook that      *)
(* reads the churn_features table, reshapes it, registers it as the        *)
(* feature table churn_user_features and hands it to AutoML.               *)
(*                                                                         *)
(* The notebook's statements are the actions; the warehouse and the        *)
(* feature store are the state `tables`.  Every call into the platform     *)
(* either returns or raises.  A frame is a record [cols, rows]: rows is a  *)
(* sequence of functions from column name to value, so duplicate rows and  *)
(* missing values (NULL) are representable.                                *)
(***************************************************************************)
EXTENDS Naturals, Sequences, FiniteSets

VARIABLES
  pc,              \* the statement the run executes next, or "done" / "failed"
  run,             \* number of the current run of the notebook (1, 2, ...)
  calls,           \* the calls this run has issued, in order: [op, res]
  failedAt,        \* the call whose exception ended the run, or "none"
  tables,          \* table name -> [exists, cols, rows]: warehouse and feature store
  fsRejectsExisting, \* whether the feature store refuses create_table on an existing table
  database,        \* notebook variable `database`
  churn_dataset,   \* notebook variable `churn_dataset`
  g,               \* notebook variable `g`: the frame handed to sns.PairGrid
  dataset,         \* notebook variable `dataset`
  pdf,             \* notebook variable `pdf`
  features,        \* notebook variable `features`
  train_dataset,   \* notebook variable `train_dataset`
  automlArgs,      \* the arguments of the automl.classify call of this run
  touched,         \* names of the tables this run has asked to drop, create or write
  tablesAtStart,   \* `tables` when the current run started
  lastCompleted    \* feature table left by the most recent completed run

vars == <<pc, run, calls, failedAt, tables, fsRejectsExisting, database,
          churn_dataset, g, dataset, pdf, features, train_dataset, automlArgs,
          touched, tablesAtStart, lastCompleted>>

----------------------------------------------------------------------------
(* Bounds *)

MaxRows == 2
MaxRuns == 2

----------------------------------------------------------------------------
(* Values *)

NULL == "NULL"

DatabaseName == "rac_retail_demo"

SourceTable == "rac_retail_demo.churn_features"

BadFeatureTable == "rac_retail_demo.churn_features"
FeatureTable == "rac_retail_demo.churn_user_features"

TableNames == {SourceTable, FeatureTable}

BadDroppedColumns == {"address", "email", "firstname", "lastname", "creation_date",
                      "last_activity_date"}
DroppedColumns == {"address", "email", "firstname", "lastname", "creation_date",
                   "last_activity_date", "last_event"}

PlotColumns == {"age_group", "gender", "order_count"}

\* The columns of churn_features that the notebook names.
SourceColumns == {"user_id", "age_group", "gender", "order_count", "churn",
                  "address", "email", "firstname", "lastname", "creation_date",
                  "last_activity_date", "last_event"}

TargetCol == "churn"

NoFrame == [cols |-> {}, rows |-> <<>>]

NoTable == [exists |-> FALSE, cols |-> {}, rows |-> <<>>]

NoArgs == [table |-> NoFrame, target |-> "none"]

MkRow(uid, email, age, churn) ==
  [c \in SourceColumns |->
     CASE c = "user_id" -> uid
       [] c = "email" -> email
       [] c = "age_group" -> age
       [] c = "churn" -> churn
       [] OTHER -> "x"]

\* The customers the source table is drawn from: complete rows, a second row
\* of the same user_id, and rows with one missing value.
SampleRows ==
  { MkRow("u1", "e", "a", "0"),
    MkRow("u2", "e", "a", "1"),
    MkRow("u1", "e", "b", "1"),
    MkRow("u1", NULL, "a", "0"),
    MkRow("u2", "e", NULL, "0"),
    MkRow("u2", "e", "a", NULL) }

SeqsUpTo(S, n) == UNION { [1..k -> S] : k \in 0..n }

SourceContents == SeqsUpTo(SampleRows, MaxRows)

\* A feature table left behind by some earlier job, with a stale row.
StaleRow == [c \in SourceColumns \ DroppedColumns |->
               CASE c = "user_id" -> "u9" [] c = "churn" -> "1" [] OTHER -> "x"]

StaleTable == [exists |-> TRUE, cols |-> SourceColumns \ DroppedColumns,
               rows |-> <<StaleRow>>]

----------------------------------------------------------------------------
(* Frames *)

FrameOf(t) == [cols |-> t.cols, rows |-> t.rows]

Select(f, cs) ==
  [cols |-> cs, rows |-> [i \in 1..Len(f.rows) |-> [c \in cs |-> f.rows[i][c]]]]

Drop(f, cs) == Select(f, f.cols \ cs)

Complete(r) == \A c \in DOMAIN r : r[c] # NULL

LabelBlindComplete(r) == \A c \in DOMAIN r \ {TargetCol} : r[c] # NULL

DropNaKeepNullLabel(f) == [cols |-> f.cols, rows |-> SelectSeq(f.rows, LabelBlindComplete)]
DropNa(f) == [cols |-> f.cols, rows |-> SelectSeq(f.rows, Complete)]

RECURSIVE SubSeqs(_)
SubSeqs(s) ==
  IF s = <<>> THEN { <<>> }
  ELSE LET rest == SubSeqs(Tail(s))
       IN rest \cup { <<Head(s)>> \o t : t \in rest }

Samples(f) == { [cols |-> f.cols, rows |-> s] : s \in SubSeqs(f.rows) }

----------------------------------------------------------------------------
(* A call returns, or raises and ends the run *)

Return(op, next) ==
  /\ pc' = next
  /\ calls' = Append(calls, [op |-> op, res |-> "ok"])
  /\ failedAt' = failedAt

Raise(op) ==
  /\ pc' = "failed"
  /\ calls' = Append(calls, [op |-> op, res |-> "raised"])
  /\ failedAt' = op

Swallow(op, next) ==
  /\ pc' = next
  /\ calls' = Append(calls, [op |-> op, res |-> "raised"])
  /\ failedAt' = failedAt

notebookVars == <<database, churn_dataset, g, dataset, pdf, features, train_dataset>>
envVars == <<tables, fsRejectsExisting, tablesAtStart, lastCompleted, run>>

QualifiedName(db, t) == db \o "." \o t

----------------------------------------------------------------------------
(* Initial state: the source table holds some customers; the feature table *)
(* is absent or was left behind by an earlier job.                         *)

Init ==
  /\ pc = "install"
  /\ run = 1
  /\ calls = <<>>
  /\ failedAt = "none"
  /\ \E src \in SourceContents, old \in {NoTable, StaleTable} :
       tables = [n \in TableNames |->
                   IF n = SourceTable
                   THEN [exists |-> TRUE, cols |-> SourceColumns, rows |-> src]
                   ELSE old]
  /\ fsRejectsExisting \in BOOLEAN
  /\ database = "unset"
  /\ churn_dataset = NoFrame
  /\ g = NoFrame
  /\ dataset = NoFrame
  /\ pdf = NoFrame
  /\ features = NoFrame
  /\ train_dataset = NoFrame
  /\ automlArgs = NoArgs
  /\ touched = {}
  /\ tablesAtStart = tables
  /\ lastCompleted = NoTable

----------------------------------------------------------------------------
(* Cells 1-2: %pip install bamboolib; import bamboolib.  %pip restarts the *)
(* Python interpreter, so the notebook's variables are gone afterwards.    *)

InstallLibs ==
  /\ pc = "install"
  /\ \/ /\ Return("install", "use_database")
        /\ database' = "unset"
        /\ churn_dataset' = NoFrame
        /\ g' = NoFrame
        /\ dataset' = NoFrame
        /\ pdf' = NoFrame
        /\ features' = NoFrame
        /\ train_dataset' = NoFrame
     \/ /\ Raise("install")
        /\ UNCHANGED notebookVars
  /\ UNCHANGED <<envVars, automlArgs, touched>>

(* database = 'rac_retail_demo'; spark.sql(f"USE {database}") *)
UseDatabase ==
  /\ pc = "use_database"
  /\ database' = DatabaseName
  /\ \/ Return("use_database", "read_churn")
     \/ Raise("use_database")
  /\ UNCHANGED <<envVars, churn_dataset, g, dataset, pdf, features, train_dataset,
                 automlArgs, touched>>

(* churn_dataset = spark.table("churn_features") *)
ReadChurnTable ==
  /\ pc = "read_churn"
  /\ LET name == QualifiedName(database, "churn_features")
     IN \/ /\ name \in TableNames
           /\ tables[name].exists
           /\ Return("read_churn", "display_churn")
           /\ churn_dataset' = FrameOf(tables[name])
        \/ /\ Raise("read_churn")
           /\ UNCHANGED churn_dataset
  /\ UNCHANGED <<envVars, database, g, dataset, pdf, features, train_dataset,
                 automlArgs, touched>>

(* display(churn_dataset) *)
DisplayChurn ==
  /\ pc = "display_churn"
  /\ \/ Return("display_churn", "pair_plot")
     \/ Raise("display_churn")
  /\ UNCHANGED <<envVars, notebookVars, automlArgs, touched>>

(* g = sns.PairGrid(churn_dataset.sample(0.01).toPandas()[[...]]); g.map_* *)
PairPlot ==
  /\ pc = "pair_plot"
  /\ \/ /\ Return("pair_plot", "pandas_api")
        /\ \E s \in Samples(churn_dataset) : g' = Select(s, PlotColumns)
     \/ /\ Raise("pair_plot")
        /\ UNCHANGED g
  /\ UNCHANGED <<envVars, database, churn_dataset, dataset, pdf, features,
                 train_dataset, automlArgs, touched>>

(* dataset = churn_dataset.pandas_api() *)
PandasApi ==
  /\ pc = "pandas_api"
  /\ \/ /\ Return("pandas_api", "describe")
        /\ dataset' = churn_dataset
     \/ /\ Raise("pandas_api")
        /\ UNCHANGED dataset
  /\ UNCHANGED <<envVars, database, churn_dataset, g, pdf, features, train_dataset,
                 automlArgs, touched>>

(* dataset.describe() *)
Describe ==
  /\ pc = "describe"
  /\ \/ Return("describe", "drop_columns")
     \/ Raise("describe")
  /\ UNCHANGED <<envVars, notebookVars, automlArgs, touched>>

(* dataset = dataset.drop(columns=[...]) *)
DropColumns ==
  /\ pc = "drop_columns"
  /\ \/ /\ DroppedColumns \subseteq dataset.cols
        /\ Return("drop_columns", "dropna")
        /\ dataset' = Drop(dataset, DroppedColumns)
     \/ /\ Raise("drop_columns")
        /\ UNCHANGED dataset
  /\ UNCHANGED <<envVars, database, churn_dataset, g, pdf, features, train_dataset,
                 automlArgs, touched>>

(* dataset = dataset.dropna() *)
DropMissing ==
  /\ pc = "dropna"
  /\ \/ /\ Return("dropna", "to_pandas")
        /\ dataset' = DropNa(dataset)
     \/ /\ Raise("dropna")
        /\ UNCHANGED dataset
  /\ UNCHANGED <<envVars, database, churn_dataset, g, pdf, features, train_dataset,
                 automlArgs, touched>>

(* pdf = churn_dataset.toPandas() *)
ToPandas ==
  /\ pc = "to_pandas"
  /\ \/ /\ Return("to_pandas", "fs_client")
        /\ pdf' = churn_dataset
     \/ /\ Raise("to_pandas")
        /\ UNCHANGED pdf
  /\ UNCHANGED <<envVars, database, churn_dataset, g, dataset, features,
                 train_dataset, automlArgs, touched>>

(* from databricks.feature_store import FeatureStoreClient; fs = FeatureStoreClient() *)
NewFsClient ==
  /\ pc = "fs_client"
  /\ \/ Return("fs_client", "drop_table")
     \/ Raise("fs_client")
  /\ UNCHANGED <<envVars, notebookVars, automlArgs, touched>>

----------------------------------------------------------------------------
(* The feature-store cell.  `touched` records the table each drop, create  *)
(* or write names.                                                         *)

(* Mutant: the except clause re-raises instead of passing. *)
DropTableReraise ==
  /\ pc = "drop_table"
  /\ touched' = touched \cup {FeatureTable}
  /\ \/ /\ tables[FeatureTable].exists
        /\ Return("drop_table", "create_table")
        /\ tables' = [tables EXCEPT ![FeatureTable] = NoTable]
     \/ /\ Raise("drop_table")
        /\ UNCHANGED tables
  /\ UNCHANGED <<fsRejectsExisting, tablesAtStart, lastCompleted, run, notebookVars,
                 automlArgs>>

(* Mutant: the cell goes from drop_table straight to write_table. *)
DropTableThenWrite ==
  /\ pc = "drop_table"
  /\ touched' = touched \cup {FeatureTable}
  /\ \/ /\ tables[FeatureTable].exists
        /\ Return("drop_table", "write_table")
        /\ tables' = [tables EXCEPT ![FeatureTable] = NoTable]
     \/ /\ Swallow("drop_table", "write_table")
        /\ UNCHANGED tables
  /\ UNCHANGED <<fsRejectsExisting, tablesAtStart, lastCompleted, run, notebookVars,
                 automlArgs>>

(* try: fs.drop_table(f'{database}.churn_user_features')  except: pass      *)
(* The call removes an existing table, or raises (the table is missing, or *)
(* any other failure) and leaves the store as it was; the bare except      *)
(* swallows whatever was raised.                                           *)
DropTable ==
  /\ pc = "drop_table"
  /\ touched' = touched \cup {FeatureTable}
  /\ \/ /\ tables[FeatureTable].exists
        /\ Return("drop_table", "create_table")
        /\ tables' = [tables EXCEPT ![FeatureTable] = NoTable]
     \/ /\ Swallow("drop_table", "create_table")
        /\ UNCHANGED tables
  /\ UNCHANGED <<fsRejectsExisting, tablesAtStart, lastCompleted, run, notebookVars,
                 automlArgs>>

(* Mutant: create_table wrapped in the same try/except as drop_table. *)
CreateTableSwallow ==
  /\ pc = "create_table"
  /\ touched' = touched \cup {FeatureTable}
  /\ \/ /\ ~tables[FeatureTable].exists
        /\ Return("create_table", "write_table")
        /\ tables' = [tables EXCEPT ![FeatureTable] =
                        [exists |-> TRUE, cols |-> dataset.cols, rows |-> <<>>]]
     \/ /\ tables[FeatureTable].exists
        /\ ~fsRejectsExisting
        /\ Return("create_table", "write_table")
        /\ UNCHANGED tables
     \/ /\ Swallow("create_table", "write_table")
        /\ UNCHANGED tables
  /\ UNCHANGED <<fsRejectsExisting, tablesAtStart, lastCompleted, run, notebookVars,
                 automlArgs>>

(* Mutant: the table is created only when it does not exist yet. *)
CreateTableIfNotExists ==
  /\ pc = "create_table"
  /\ touched' = touched \cup {FeatureTable}
  /\ \/ /\ ~tables[FeatureTable].exists
        /\ Return("create_table", "write_table")
        /\ tables' = [tables EXCEPT ![FeatureTable] =
                        [exists |-> TRUE, cols |-> dataset.cols, rows |-> <<>>]]
     \/ /\ tables[FeatureTable].exists
        /\ Return("create_table", "write_table")
        /\ UNCHANGED tables
     \/ /\ Raise("create_table")
        /\ UNCHANGED tables
  /\ UNCHANGED <<fsRejectsExisting, tablesAtStart, lastCompleted, run, notebookVars,
                 automlArgs>>

(* churn_feature_table = fs.create_table(name=..., primary_keys='user_id', *)
(*                                       schema=dataset.spark.schema(), ...) *)
(* A missing table is created empty with the dataset's schema.  On an      *)
(* existing table the store either refuses or returns the table as it is.  *)
CreateTable ==
  /\ pc = "create_table"
  /\ touched' = touched \cup {FeatureTable}
  /\ \/ /\ ~tables[FeatureTable].exists
        /\ Return("create_table", "write_table")
        /\ tables' = [tables EXCEPT ![FeatureTable] =
                        [exists |-> TRUE, cols |-> dataset.cols, rows |-> <<>>]]
     \/ /\ tables[FeatureTable].exists
        /\ ~fsRejectsExisting
        /\ Return("create_table", "write_table")
        /\ UNCHANGED tables
     \/ /\ Raise("create_table")
        /\ UNCHANGED tables
  /\ UNCHANGED <<fsRejectsExisting, tablesAtStart, lastCompleted, run, notebookVars,
                 automlArgs>>

(* Mutant: mode='merge' style write that keeps the rows already stored. *)
WriteTableAppend ==
  /\ pc = "write_table"
  /\ touched' = touched \cup {FeatureTable}
  /\ \/ /\ tables[FeatureTable].exists
        /\ Return("write_table", "read_features")
        /\ tables' = [tables EXCEPT ![FeatureTable] =
                        [exists |-> TRUE, cols |-> dataset.cols,
                         rows |-> tables[FeatureTable].rows \o dataset.rows]]
     \/ /\ Raise("write_table")
        /\ UNCHANGED tables
  /\ UNCHANGED <<fsRejectsExisting, tablesAtStart, lastCompleted, run, notebookVars,
                 automlArgs>>

(* Mutant: a failed write is tried once more. *)
WriteTableRetry ==
  /\ pc = "write_table"
  /\ touched' = touched \cup {FeatureTable}
  /\ \/ /\ tables[FeatureTable].exists
        /\ Return("write_table", "read_features")
        /\ tables' = [tables EXCEPT ![FeatureTable] =
                        [exists |-> TRUE, cols |-> dataset.cols, rows |-> dataset.rows]]
     \/ /\ \A i \in 1..Len(calls) : calls[i].op # "write_table"
        /\ Swallow("write_table", "write_table")
        /\ UNCHANGED tables
     \/ /\ \E i \in 1..Len(calls) : calls[i].op = "write_table"
        /\ Raise("write_table")
        /\ UNCHANGED tables
  /\ UNCHANGED <<fsRejectsExisting, tablesAtStart, lastCompleted, run, notebookVars,
                 automlArgs>>

(* fs.write_table(df=dataset.to_spark(), name=..., mode='overwrite') *)
WriteTable ==
  /\ pc = "write_table"
  /\ touched' = touched \cup {FeatureTable}
  /\ \/ /\ tables[FeatureTable].exists
        /\ Return("write_table", "read_features")
        /\ tables' = [tables EXCEPT ![FeatureTable] =
                        [exists |-> TRUE, cols |-> dataset.cols, rows |-> dataset.rows]]
     \/ /\ Raise("write_table")
        /\ UNCHANGED tables
  /\ UNCHANGED <<fsRejectsExisting, tablesAtStart, lastCompleted, run, notebookVars,
                 automlArgs>>

(* features = fs.read_table(f'{database}.churn_user_features') *)
ReadFeatures ==
  /\ pc = "read_features"
  /\ \/ /\ tables[FeatureTable].exists
        /\ Return("read_features", "display_features")
        /\ features' = FrameOf(tables[FeatureTable])
     \/ /\ Raise("read_features")
        /\ UNCHANGED features
  /\ UNCHANGED <<envVars, database, churn_dataset, g, dataset, pdf, train_dataset,
                 automlArgs, touched>>

(* display(features) *)
DisplayFeatures ==
  /\ pc = "display_features"
  /\ \/ Return("display_features", "read_train")
     \/ Raise("display_features")
  /\ UNCHANGED <<envVars, notebookVars, automlArgs, touched>>

----------------------------------------------------------------------------
(* The AutoML cells *)

(* from databricks import automl; train_dataset = fs.read_table(...) *)
ReadTrain ==
  /\ pc = "read_train"
  /\ \/ /\ tables[FeatureTable].exists
        /\ Return("read_train", "display_train")
        /\ train_dataset' = FrameOf(tables[FeatureTable])
     \/ /\ Raise("read_train")
        /\ UNCHANGED train_dataset
  /\ UNCHANGED <<envVars, database, churn_dataset, g, dataset, pdf, features,
                 automlArgs, touched>>

(* display(train_dataset) *)
DisplayTrain ==
  /\ pc = "display_train"
  /\ \/ Return("display_train", "classify")
     \/ Raise("display_train")
  /\ UNCHANGED <<envVars, notebookVars, automlArgs, touched>>

(* Mutant: the commented-out call, on three selected columns. *)
ClassifySelected ==
  /\ pc = "classify"
  /\ automlArgs' = [table |-> Select(train_dataset, {"gender", "age_group", "churn"}),
                    target |-> TargetCol]
  /\ \/ Return("classify", "done")
     \/ Raise("classify")
  /\ UNCHANGED <<envVars, notebookVars, touched>>

(* summary = automl.classify(train_dataset, target_col="churn") *)
Classify ==
  /\ pc = "classify"
  /\ automlArgs' = [table |-> train_dataset, target |-> TargetCol]
  /\ \/ Return("classify", "done")
     \/ Raise("classify")
  /\ UNCHANGED <<envVars, notebookVars, touched>>

----------------------------------------------------------------------------
(* The notebook is run again ("Run all") after a run has ended.  The       *)
(* tables are what the last run left; the source table is not edited       *)
(* between runs.                                                           *)

Rerun ==
  /\ pc \in {"done", "failed"}
  /\ run < MaxRuns
  /\ run' = run + 1
  /\ pc' = "install"
  /\ calls' = <<>>
  /\ failedAt' = "none"
  /\ automlArgs' = NoArgs
  /\ touched' = {}
  /\ tablesAtStart' = tables
  /\ lastCompleted' = IF pc = "done" THEN tables[FeatureTable] ELSE lastCompleted
  /\ UNCHANGED <<tables, fsRejectsExisting, notebookVars>>

Step ==
  \/ InstallLibs
  \/ UseDatabase
  \/ ReadChurnTable
  \/ DisplayChurn
  \/ PairPlot
  \/ PandasApi
  \/ Describe
  \/ DropColumns
  \/ DropMissing
  \/ ToPandas
  \/ NewFsClient
  \/ DropTable
  \/ CreateTable
  \/ WriteTable
  \/ ReadFeatures
  \/ DisplayFeatures
  \/ ReadTrain
  \/ DisplayTrain
  \/ Classify

Next == Step \/ Rerun

Spec == Init /\ [][Next]_vars

\* The run's control flow does not read the rows, so termination is checked
\* on source tables drawn from one complete row and one row with a missing label.
FairRows == { MkRow("u1", "e", "a", "0"), MkRow("u2", "e", "a", NULL) }

FairInit ==
  /\ Init
  /\ \A i \in 1..Len(tables[SourceTable].rows) : tables[SourceTable].rows[i] \in FairRows

\* Every call into the platform returns or raises, so a run that has a next
\* statement executes it.
FairSpec == FairInit /\ [][Next]_vars /\ WF_vars(Step)

----------------------------------------------------------------------------
(* Properties *)

ProgramOrder ==
  << "install", "use_database", "read_churn", "display_churn", "pair_plot",
     "pandas_api", "describe", "drop_columns", "dropna", "to_pandas", "fs_client",
     "drop_table", "create_table", "write_table", "read_features",
     "display_features", "read_train", "display_train", "classify" >>

Issued(op) == \E i \in 1..Len(calls) : calls[i].op = op

Completed(op) == \E i \in 1..Len(calls) : calls[i] = [op |-> op, res |-> "ok"]

Raised(op) == \E i \in 1..Len(calls) : calls[i] = [op |-> op, res |-> "raised"]

KeptColumns == {"user_id", "age_group", "gender", "order_count", "churn"}

KeptComplete(r) == \A c \in KeptColumns : r[c] # NULL

ExpectedRows(rows) ==
  LET kept == SelectSeq(rows, KeptComplete)
  IN [i \in 1..Len(kept) |-> [c \in KeptColumns |-> kept[i][c]]]

SourceRows == tables[SourceTable].rows

StoredFeatures == tables["rac_retail_demo.churn_user_features"]

\* C1: a drop_table that raised does not end the run; whether drop_table
\* returned or raised, the next call of the run is create_table.
C1_DropFailureSwallowed ==
  \A i \in 1..Len(calls) :
    calls[i].op = "drop_table" =>
      /\ failedAt # "drop_table"
      /\ IF i < Len(calls) THEN calls[i + 1].op = "create_table"
                           ELSE pc = "create_table"

C1_Witness ==
  \E i \in 1..Len(calls) :
    /\ calls[i] = [op |-> "drop_table", res |-> "raised"]
    /\ i < Len(calls)
    /\ calls[i + 1].op = "create_table"

\* C2: a call other than drop_table that raises is the last call of the run:
\* the run is failed at that call, the call is not issued again and no later
\* statement runs.
C2_FailurePropagates ==
  \A i \in 1..Len(calls) :
    (calls[i].res = "raised" /\ calls[i].op # "drop_table") =>
      /\ i = Len(calls)
      /\ pc = "failed"
      /\ failedAt = calls[i].op
      /\ \A j \in 1..Len(calls) : calls[j].op = calls[i].op => j = i

C2_Witness ==
  /\ pc = "failed"
  /\ failedAt = "write_table"
  /\ calls[Len(calls)] = [op |-> "write_table", res |-> "raised"]

\* C3: the calls of a run are issued in the notebook's order, each after the
\* one before it has completed (drop_table may have raised): write_table only
\* after create_table returned, classify only after write_table and both
\* read_table calls returned.
C3_FixedOrder ==
  /\ Len(calls) <= Len(ProgramOrder)
  /\ \A i \in 1..Len(calls) :
       /\ calls[i].op = ProgramOrder[i]
       /\ i < Len(calls) => (calls[i].res = "ok" \/ calls[i].op = "drop_table")
  /\ Issued("write_table") => Completed("create_table")
  /\ Issued("classify") =>
       Completed("write_table") /\ Completed("read_features") /\ Completed("read_train")

C3_Witness == Issued("classify") /\ Raised("drop_table")

\* C4: once write_table has returned, the feature table holds exactly the
\* source rows that have no missing value in a kept column, restricted to the
\* kept columns (the source columns minus the seven dropped ones).
C4_WrittenDataset ==
  Completed("write_table") =>
    /\ StoredFeatures.exists
    /\ StoredFeatures.cols = KeptColumns
    /\ StoredFeatures.rows = ExpectedRows(SourceRows)

C4_Witness ==
  /\ Completed("write_table")
  /\ \E i \in 1..Len(SourceRows) :
       SourceRows[i]["email"] = NULL /\ KeptComplete(SourceRows[i])
  /\ \E i \in 1..Len(SourceRows) : ~KeptComplete(SourceRows[i])
  /\ Len(StoredFeatures.rows) = 1

UserIds == {"u1", "u2", "u9"}

CountUser(rows, u) == Cardinality({ i \in 1..Len(rows) : rows[i]["user_id"] = u })

FeaturesPresent(r) == \A c \in KeptColumns \ {"churn"} : r[c] # NULL

\* C6 as stated: the notebook's own code removes no row for a null churn
\* label or a repeated user_id, so once dropna has returned every source row
\* whose other kept columns are present is still in the dataset.
C6_NoLocalEnforcement ==
  Completed("dropna") =>
    \A u \in UserIds :
      CountUser(dataset.rows, u) =
        CountUser(SelectSeq(SourceRows, FeaturesPresent), u)

\* C6 amended: the notebook never removes a row for repeating a user_id
\* (every source row complete in the kept columns stays, as often as it
\* occurs), but dropna does remove every row whose churn label is missing.
C6_LocalNullLabelRemoval ==
  Completed("dropna") =>
    /\ \A u \in UserIds :
         CountUser(dataset.rows, u) = CountUser(SelectSeq(SourceRows, KeptComplete), u)
    /\ \A i \in 1..Len(dataset.rows) : dataset.rows[i]["churn"] # NULL

C6_Witness ==
  /\ Completed("dropna")
  /\ Len(SourceRows) = 2
  /\ SourceRows[1]["user_id"] = SourceRows[2]["user_id"]
  /\ FeaturesPresent(SourceRows[1]) /\ FeaturesPresent(SourceRows[2])
  /\ SourceRows[1]["churn"] # NULL
  /\ SourceRows[2]["churn"] = NULL
  /\ Len(dataset.rows) = 1

\* C7: when a run completes, the feature table is determined by the source
\* table alone, whatever the table held before the run, and equals what the
\* previous completed run left (the source being unchanged).
C7_FeatureTableFromSourceOnly ==
  pc = "done" =>
    /\ StoredFeatures.exists
    /\ StoredFeatures.cols = KeptColumns
    /\ StoredFeatures.rows = ExpectedRows(SourceRows)
    /\ lastCompleted.exists => StoredFeatures = lastCompleted

C7_Witness ==
  /\ pc = "done"
  /\ run = 2
  /\ lastCompleted.exists
  /\ tablesAtStart["rac_retail_demo.churn_user_features"].exists
  /\ Raised("drop_table")
  /\ Len(StoredFeatures.rows) >= 1

Ended == pc \in {"done", "failed"}

\* C8: a run issues each call at most once, a completed run has issued every
\* call of the notebook, and a run always ends, completed or failed.
C8_LinearSinglePass ==
  /\ [](\A i, j \in 1..Len(calls) : calls[i].op = calls[j].op => i = j)
  /\ [](pc = "done" => /\ Len(calls) = Len(ProgramOrder)
                       /\ \A k \in 1..Len(ProgramOrder) : Completed(ProgramOrder[k])
                            \/ (ProgramOrder[k] = "drop_table" /\ Raised("drop_table")))
  /\ (~Ended ~> Ended)

C8_Witness == pc = "done" /\ Len(calls) = 19 /\ run = 2

\* C9: with a store that refuses to create an existing table, a drop_table
\* that raised while the table existed makes create_table fail the run:
\* write_table and classify are not called and the table is as it was.
C9_SwallowedDropSurfacesAtCreate ==
  ( /\ fsRejectsExisting
    /\ Raised("drop_table")
    /\ tablesAtStart["rac_retail_demo.churn_user_features"].exists
    /\ pc # "create_table" ) =>
      /\ pc = "failed"
      /\ failedAt = "create_table"
      /\ ~Issued("write_table")
      /\ ~Issued("classify")
      /\ automlArgs = NoArgs
      /\ StoredFeatures = tablesAtStart["rac_retail_demo.churn_user_features"]

C9_Witness ==
  /\ fsRejectsExisting
  /\ Raised("drop_table")
  /\ tablesAtStart["rac_retail_demo.churn_user_features"].exists
  /\ pc = "failed"
  /\ failedAt = "create_table"
  /\ Len(StoredFeatures.rows) >= 1

\* C10: the notebook only reads churn_features: the stored source table never
\* changes, drop, create and write name churn_user_features only, and the
\* frame toPandas reads is still the whole source table after the reshaping.
C10_SourceOnlyRead ==
  /\ tables["rac_retail_demo.churn_features"] =
       tablesAtStart["rac_retail_demo.churn_features"]
  /\ tables["rac_retail_demo.churn_features"].exists
  /\ touched \subseteq {"rac_retail_demo.churn_user_features"}
  /\ Completed("read_churn") =>
       churn_dataset = FrameOf(tables["rac_retail_demo.churn_features"])
  /\ Completed("to_pandas") =>
       /\ pdf = FrameOf(tables["rac_retail_demo.churn_features"])
       /\ pdf.cols = SourceColumns

C10_Witness ==
  /\ Completed("write_table")
  /\ touched = {"rac_retail_demo.churn_user_features"}
  /\ Len(pdf.rows) = 2
  /\ Len(dataset.rows) = 1
  /\ dataset.cols # pdf.cols

====
